---------------------------- MODULE Spec2Model ----------------------------
(***************************************************************************)
(* A model of image_compressor.py: the replace pipeline                    *)
(* (replace_with_compressed), the compress pipeline (process_directory,    *)
(* compress_image, CompressionStats), the analyze pipeline                 *)
(* (analyze_image_resolutions), main for the compress command, and         *)
(* resize_image.                                                           *)
(*                                                                         *)
(* File names are sequences of one-character strings, so that the          *)
(* substring test '_min.' in filename, str.replace and os.path.splitext    *)
(* are computed as Python computes them.  A path is <<directory, name>>.   *)
(* The filesystem is a function from the paths that exist to the bytes     *)
(* stored there; bytes are abstracted by a natural number.                 *)
(***************************************************************************)
EXTENDS Integers, Sequences, FiniteSets, TLC

VARIABLES
    fs,              \* the filesystem: existing path -> bytes
    fs0,             \* the filesystem when the command started
    rpc,             \* replace_with_compressed: position in the code
    dirs,            \* os.walk: directories still to be listed
    root,            \* os.walk: the directory being listed
    files,           \* os.walk: names of the current listing not yet visited
    visited,         \* names with the marker the loop body has run for
    cur,             \* compressed_path, original_path, backup_path of the
                     \* swap in progress, or of the last one begun, and the
                     \* bytes held at compressed_path when it began
    saved,           \* bytes found at original_path by the exists() test
    raised,          \* filesystem calls of that swap that raised
    faults,          \* filesystem calls that raised since the command started
    replaced_count,  \* line 330
    errlog,          \* original names logged by line 357
    cpc,             \* process_directory: position in the code
    max_workers,     \* line 285
    task,            \* the futures: work item -> state of its compress_image
    collected,       \* futures whose result the loop of line 298 has taken
    stats,           \* the CompressionStats instance
    report,          \* what the final report logged
    apc,             \* analyze_image_resolutions: position in the code
    athread,         \* the futures: image -> state of its process_image
    lock,            \* stats.lock: the image whose thread holds it
    dims,            \* the width and height stored in each image
    mpc,             \* main: position in the code
    argv,            \* main: the command line of the compress command
    exit_code,       \* the status the process exited with
    zpc,             \* resize_image: position in the code
    image,           \* resize_image: image.size
    target_width,    \* resize_image: argument
    target_height,   \* resize_image: argument
    scale_ratio,     \* resize_image: argument, a fraction <<numerator, denominator>>
    new_size         \* resize_image: the size of the image returned

rvars == <<rpc, dirs, root, files, visited, cur, saved, raised, replaced_count,
           errlog>>
cvars == <<cpc, max_workers, task, collected, stats, report>>
avars == <<apc, athread, lock, dims>>
mvars == <<mpc, argv, exit_code>>
zvars == <<zpc, image, target_width, target_height, scale_ratio, new_size>>
vars == <<fs, fs0, faults, rvars, cvars, avars, mvars, zvars>>

(***************************************************************************)
(* Strings                                                                 *)
(***************************************************************************)
MARKER == <<"_", "m", "i", "n", ".">>
DOT == <<".">>
BACKUP_SUFFIX == <<".", "b", "a", "c", "k", "u", "p">>
MIN_SUFFIX == <<"_", "m", "i", "n">>

\* s[i..] starts with pat
StartsAt(s, i, pat) ==
    /\ i + Len(pat) - 1 <= Len(s)
    /\ SubSeq(s, i, i + Len(pat) - 1) = pat

\* Python: pat in s
Contains(s, pat) == \E i \in 1..Len(s) : StartsAt(s, i, pat)

\* Python: s.replace(pat, rep), every non-overlapping occurrence, left to right
RECURSIVE ReplaceFrom(_, _, _, _)
ReplaceFrom(s, i, pat, rep) ==
    IF i > Len(s) THEN <<>>
    ELSE IF StartsAt(s, i, pat)
         THEN rep \o ReplaceFrom(s, i + Len(pat), pat, rep)
         ELSE <<s[i]>> \o ReplaceFrom(s, i + 1, pat, rep)

StrReplace(s, pat, rep) == ReplaceFrom(s, 1, pat, rep)

\* os.path.join(root, filename)
Join(d, filename) == <<d, filename>>

\* the last index of s holding a dot, 0 when there is none
LastDot(s) ==
    IF \E i \in 1..Len(s) : s[i] = "."
    THEN CHOOSE i \in 1..Len(s) :
            /\ s[i] = "."
            /\ \A j \in (i + 1)..Len(s) : s[j] # "."
    ELSE 0

\* os.path.splitext(filename): the extension starts at the last dot, unless
\* only dots precede it
splitext(filename) ==
    LET dot == LastDot(filename) IN
    IF dot > 0 /\ \E j \in 1..(dot - 1) : filename[j] # "."
    THEN <<SubSeq(filename, 1, dot - 1), SubSeq(filename, dot, Len(filename))>>
    ELSE <<filename, <<>> >>

\* lines 50-53, for the path <<directory, filename>>
get_compressed_filename(filepath) ==
    LET directory == filepath[1]
        name == splitext(filepath[2])[1]
        ext == splitext(filepath[2])[2]
    IN  Join(directory, name \o MIN_SUFFIX \o ext)

(***************************************************************************)
(* Filesystem calls                                                        *)
(***************************************************************************)
\* os.path.exists(p)
Exists(f, p) == p \in DOMAIN f

\* os.rename(src, dst) when it succeeds: dst is replaced, src is gone
Renamed(f, src, dst) ==
    [q \in (DOMAIN f \ {src}) \cup {dst} |-> IF q = dst THEN f[src] ELSE f[q]]

\* os.remove(p) when it succeeds
Removed(f, p) == [q \in DOMAIN f \ {p} |-> f[q]]

\* the file p written with bytes b
Written(f, p, b) == [q \in DOMAIN f \cup {p} |-> IF q = p THEN b ELSE f[q]]

(***************************************************************************)
(* The directory tree                                                      *)
(***************************************************************************)
ROOT == "root"
SUB == "sub"
\* os.walk is top-down: the root is listed first, then its subdirectory
WalkOrder == <<ROOT, SUB>>

A_JPG == <<"a", ".", "j", "p", "g">>
A_MIN_JPG == <<"a", "_", "m", "i", "n", ".", "j", "p", "g">>
A_MIN_MIN_JPG == <<"a", "_", "m", "i", "n", "_", "m", "i", "n", ".", "j", "p", "g">>
B_PNG == <<"b", ".", "p", "n", "g">>
B_MIN_PNG == <<"b", "_", "m", "i", "n", ".", "p", "n", "g">>

\* the files a tree handed to replace may hold, in a fixed order
ReplaceTree ==
    << <<ROOT, A_JPG>>, <<ROOT, A_MIN_JPG>>, <<ROOT, A_MIN_MIN_JPG>>,
       <<SUB, B_PNG>>, <<SUB, B_MIN_PNG>> >>

ReplacePaths == {ReplaceTree[i] : i \in DOMAIN ReplaceTree}

\* the bytes of the file that starts at p: different files, different bytes
Blob(p) == CHOOSE i \in DOMAIN ReplaceTree : ReplaceTree[i] = p

\* the names os.walk lists for directory d
Listing(f, d) == {p[2] : p \in {q \in DOMAIN f : q[1] = d}}

\* the largest number of filesystem calls that raise in one run
MaxFaults == 2

MayRaise == faults < MaxFaults

(***************************************************************************)
(* replace_with_compressed                                                 *)
(***************************************************************************)
NoPath == <<>>

\* Python's None, where a number is expected
None == -1

\* lines 335-337 and 341
original_name(filename) == StrReplace(filename, MARKER, DOT)
compressed_path(filename) == Join(root, filename)
original_path(filename) == Join(root, original_name(filename))
backup_path(filename) == Join(root, original_name(filename) \o BACKUP_SUFFIX)

\* the state of a command that is not the one running
ReplaceIdle ==
    /\ rpc = "idle"
    /\ dirs = <<>>
    /\ root = ROOT
    /\ files = {}
    /\ visited = {}
    /\ cur = [comp |-> NoPath, orig |-> NoPath, backup |-> NoPath, held |-> 0]
    /\ saved = 0
    /\ raised = {}
    /\ replaced_count = 0
    /\ errlog = {}

\* lines 21-27
NewStats ==
    [processed_count |-> 0, skipped_count |-> 0, total_original_size |-> 0,
     total_compressed_size |-> 0, resolution_stats |-> [r \in {} |-> 0]]

NoTasks == [p \in {} |-> 0]

CompressIdle ==
    /\ cpc = "idle"
    /\ max_workers = 0
    /\ task = NoTasks
    /\ collected = {}
    /\ stats = NewStats
    /\ report = <<>>

AnalyzeIdle ==
    /\ apc = "idle"
    /\ athread = NoTasks
    /\ lock = NoPath
    /\ dims = NoTasks

\* line 378 on: the command line when only the directory is given
NoArgs == [directory |-> "dir", quality |-> "", scale_ratio |-> ""]

MainIdle ==
    /\ mpc = "idle"
    /\ argv = NoArgs
    /\ exit_code = None

\* line 392: main has called process_directory and waits for it to return
MainInCall ==
    /\ mpc = "process_directory"
    /\ argv = NoArgs
    /\ exit_code = None

ResizeIdle ==
    /\ zpc = "idle"
    /\ image = <<0, 0>>
    /\ target_width = None
    /\ target_height = None
    /\ scale_ratio = <<1, 2>>
    /\ new_size = <<0, 0>>

InitReplace ==
    /\ \E present \in SUBSET ReplacePaths : fs = [p \in present |-> Blob(p)]
    /\ fs0 = fs
    /\ faults = 0
    /\ CompressIdle
    /\ AnalyzeIdle
    /\ MainIdle
    /\ ResizeIdle
    /\ rpc = "walk"
    /\ dirs = WalkOrder
    /\ root = ROOT
    /\ files = {}
    /\ visited = {}
    /\ cur = [comp |-> NoPath, orig |-> NoPath, backup |-> NoPath, held |-> 0]
    /\ saved = 0
    /\ raised = {}
    /\ replaced_count = 0
    /\ errlog = {}

\* line 331: os.walk yields the next directory with a snapshot of its names
WalkNext ==
    /\ rpc = "walk"
    /\ dirs # <<>>
    /\ root' = Head(dirs)
    /\ dirs' = Tail(dirs)
    /\ files' = Listing(fs, Head(dirs))
    /\ rpc' = "files"
    /\ UNCHANGED <<cvars, avars, mvars, zvars>>
    /\ UNCHANGED <<fs, fs0, faults, visited, cur, saved, raised, replaced_count,
                   errlog>>

\* line 332: the listing of the current directory is exhausted
ListingDone ==
    /\ rpc = "files"
    /\ files = {}
    /\ rpc' = "walk"
    /\ UNCHANGED <<cvars, avars, mvars, zvars>>
    /\ UNCHANGED <<fs, fs0, faults, dirs, root, files, visited, cur, saved,
                   raised, replaced_count, errlog>>

\* lines 332-333: a name without the marker
SkipUnmarked ==
    /\ rpc = "files"
    /\ \E f \in files :
          /\ ~Contains(f, MARKER)
          /\ files' = files \ {f}
    /\ UNCHANGED <<cvars, avars, mvars, zvars>>
    /\ UNCHANGED <<fs, fs0, faults, rpc, dirs, root, visited, cur, saved, raised,
                   replaced_count, errlog>>

\* an orphan that is moved to the name of the original it lacks
OrphanTakesName ==
    /\ rpc = "files"
    /\ \E f \in files :
          /\ Contains(f, MARKER)
          /\ ~Exists(fs, original_path(f))
          /\ Exists(fs, compressed_path(f))
          /\ files' = files \ {f}
          /\ visited' = visited \cup {compressed_path(f)}
          /\ fs' = Renamed(fs, compressed_path(f), original_path(f))
    /\ replaced_count' = replaced_count + 1
    /\ UNCHANGED <<cvars, avars, mvars, zvars>>
    /\ UNCHANGED <<fs0, faults, rpc, dirs, root, cur, saved, raised, errlog>>

\* lines 333-339: a name with the marker whose original does not exist
SkipOrphan ==
    /\ rpc = "files"
    /\ \E f \in files :
          /\ Contains(f, MARKER)
          /\ ~Exists(fs, original_path(f))
          /\ files' = files \ {f}
          /\ visited' = visited \cup {compressed_path(f)}
    /\ UNCHANGED <<cvars, avars, mvars, zvars>>
    /\ UNCHANGED <<fs, fs0, faults, rpc, dirs, root, cur, saved, raised,
                   replaced_count, errlog>>

\* lines 333-341: a name with the marker whose original exists
BeginSwap ==
    /\ rpc = "files"
    /\ \E f \in files :
          /\ Contains(f, MARKER)
          /\ Exists(fs, original_path(f))
          /\ files' = files \ {f}
          /\ visited' = visited \cup {compressed_path(f)}
          /\ cur' = [comp |-> compressed_path(f), orig |-> original_path(f),
                     backup |-> backup_path(f),
                     held |-> IF Exists(fs, compressed_path(f))
                              THEN fs[compressed_path(f)] ELSE 0]
          /\ saved' = fs[original_path(f)]
          /\ raised' = {}
    /\ rpc' = "rename1"
    /\ UNCHANGED <<cvars, avars, mvars, zvars>>
    /\ UNCHANGED <<fs, fs0, faults, dirs, root, replaced_count, errlog>>

\* a backup made by copying: the original stays in place
Rename1Copies ==
    /\ rpc = "rename1"
    /\ Exists(fs, cur.orig)
    /\ fs' = Written(fs, cur.backup, fs[cur.orig])
    /\ rpc' = "rename2"
    /\ UNCHANGED <<cvars, avars, mvars, zvars>>
    /\ UNCHANGED <<fs0, faults, dirs, root, files, visited, cur, saved, raised,
                   replaced_count, errlog>>

\* line 342: os.rename(original_path, backup_path) succeeds
Rename1 ==
    /\ rpc = "rename1"
    /\ Exists(fs, cur.orig)
    /\ fs' = Renamed(fs, cur.orig, cur.backup)
    /\ rpc' = "rename2"
    /\ UNCHANGED <<cvars, avars, mvars, zvars>>
    /\ UNCHANGED <<fs0, faults, dirs, root, files, visited, cur, saved, raised,
                   replaced_count, errlog>>

\* line 342 raises: no handler but the outer one of lines 365-367
Rename1Raises ==
    /\ rpc = "rename1"
    /\ MayRaise
    /\ faults' = faults + 1
    /\ raised' = raised \cup {"rename1"}
    /\ rpc' = "aborted"
    /\ UNCHANGED <<cvars, avars, mvars, zvars>>
    /\ UNCHANGED <<fs, fs0, dirs, root, files, visited, cur, saved,
                   replaced_count, errlog>>

\* a swap made by copying: the compressed file stays in place
Rename2Copies ==
    /\ rpc = "rename2"
    /\ Exists(fs, cur.comp)
    /\ fs' = Written(fs, cur.orig, fs[cur.comp])
    /\ rpc' = "remove"
    /\ UNCHANGED <<cvars, avars, mvars, zvars>>
    /\ UNCHANGED <<fs0, faults, dirs, root, files, visited, cur, saved, raised,
                   replaced_count, errlog>>

\* line 346: os.rename(compressed_path, original_path) succeeds
Rename2 ==
    /\ rpc = "rename2"
    /\ Exists(fs, cur.comp)
    /\ fs' = Renamed(fs, cur.comp, cur.orig)
    /\ rpc' = "remove"
    /\ UNCHANGED <<cvars, avars, mvars, zvars>>
    /\ UNCHANGED <<fs0, faults, dirs, root, files, visited, cur, saved, raised,
                   replaced_count, errlog>>

\* line 346 raises: caught at line 352
Rename2Raises ==
    /\ rpc = "rename2"
    /\ MayRaise \/ ~Exists(fs, cur.comp)
    /\ faults' = faults + 1
    /\ raised' = raised \cup {"rename2"}
    /\ rpc' = "rollback"
    /\ UNCHANGED <<cvars, avars, mvars, zvars>>
    /\ UNCHANGED <<fs, fs0, dirs, root, files, visited, cur, saved,
                   replaced_count, errlog>>

\* lines 348-351: os.remove(backup_path) succeeds and the file is counted
RemoveBackup ==
    /\ rpc = "remove"
    /\ Exists(fs, cur.backup)
    /\ fs' = Removed(fs, cur.backup)
    /\ replaced_count' = replaced_count + 1
    /\ rpc' = "files"
    /\ UNCHANGED <<cvars, avars, mvars, zvars>>
    /\ UNCHANGED <<fs0, faults, dirs, root, files, visited, cur, saved, raised,
                   errlog>>

\* line 348 raises: caught at line 352
RemoveRaises ==
    /\ rpc = "remove"
    /\ MayRaise \/ ~Exists(fs, cur.backup)
    /\ faults' = faults + 1
    /\ raised' = raised \cup {"remove"}
    /\ rpc' = "rollback"
    /\ UNCHANGED <<cvars, avars, mvars, zvars>>
    /\ UNCHANGED <<fs, fs0, dirs, root, files, visited, cur, saved,
                   replaced_count, errlog>>

\* a handler that logs the error and restores nothing
RollbackLogsOnly ==
    /\ rpc = "rollback"
    /\ errlog' = errlog \cup {cur.orig}
    /\ rpc' = "files"
    /\ UNCHANGED <<cvars, avars, mvars, zvars>>
    /\ UNCHANGED <<fs, fs0, faults, dirs, root, files, visited, cur, saved,
                   raised, replaced_count>>

\* lines 352-357: the handler renames the backup back, if there is one, and
\* logs the error
Rollback ==
    /\ rpc = "rollback"
    /\ fs' = IF Exists(fs, cur.backup)
             THEN Renamed(fs, cur.backup, cur.orig)
             ELSE fs
    /\ errlog' = errlog \cup {cur.orig}
    /\ rpc' = "files"
    /\ UNCHANGED <<cvars, avars, mvars, zvars>>
    /\ UNCHANGED <<fs0, faults, dirs, root, files, visited, cur, saved, raised,
                   replaced_count>>

\* line 355 raises inside the handler: only the outer handler is left
RollbackRaises ==
    /\ rpc = "rollback"
    /\ Exists(fs, cur.backup)
    /\ MayRaise
    /\ faults' = faults + 1
    /\ raised' = raised \cup {"rollback"}
    /\ rpc' = "aborted"
    /\ UNCHANGED <<cvars, avars, mvars, zvars>>
    /\ UNCHANGED <<fs, fs0, dirs, root, files, visited, cur, saved,
                   replaced_count, errlog>>

\* lines 359-363: the walk is over and the summary is logged
Summary ==
    /\ rpc = "walk"
    /\ dirs = <<>>
    /\ rpc' = "done"
    /\ UNCHANGED <<cvars, avars, mvars, zvars>>
    /\ UNCHANGED <<fs, fs0, faults, dirs, root, files, visited, cur, saved,
                   raised, replaced_count, errlog>>

NextReplace ==
    \/ WalkNext
    \/ ListingDone
    \/ SkipUnmarked
    \/ SkipOrphan
    \/ BeginSwap
    \/ Rename1
    \/ Rename1Raises
    \/ Rename2
    \/ Rename2Raises
    \/ RemoveBackup
    \/ RemoveRaises
    \/ Rollback
    \/ RollbackRaises
    \/ Summary

SpecReplace == InitReplace /\ [][NextReplace]_vars


(***************************************************************************)
(* Properties of replace_with_compressed                                   *)
(***************************************************************************)
\* the original a name with the marker stands for, and that original's backup
DerivedOriginal(q) == Join(q[1], original_name(q[2]))
BackupOf(o) == Join(o[1], o[2] \o BACKUP_SUFFIX)

\* the run is between two swaps, or over
Between == {"files", "walk", "done", "aborted"}

\* name.ext now holds what name_min.ext held at the start, and neither
\* name_min.ext nor name.ext.backup exists
RoundTrip(o) ==
    /\ Exists(fs, o)
    /\ fs[o] = fs0[get_compressed_filename(o)]
    /\ ~Exists(fs, get_compressed_filename(o))
    /\ ~Exists(fs, BackupOf(o))

\* name.ext and name_min.ext both exist at the start
PairAtStart(o) ==
    /\ o \in DOMAIN fs0
    /\ get_compressed_filename(o) \in DOMAIN fs0

\* no other swap of the run can touch name.ext or name_min.ext: name.ext has
\* no marker, and no other name with the marker in the directory has either
\* path as its original or as its original's backup
PairAlone(o) ==
    /\ ~Contains(o[2], MARKER)
    /\ \A q \in DOMAIN fs0 :
          (/\ q[1] = o[1]
           /\ Contains(q[2], MARKER)
           /\ q # get_compressed_filename(o))
          => {DerivedOriginal(q), BackupOf(DerivedOriginal(q))}
                \cap {o, get_compressed_filename(o)} = {}

\* C1 as stated: after a run in which no filesystem call raised, every pair
\* name.ext, name_min.ext that existed at the start has made the round trip.
C1_RoundTripEveryPair ==
    (rpc = "done" /\ faults = 0)
        => \A o \in DOMAIN fs0 : PairAtStart(o) => RoundTrip(o)

\* C1 amended: after a run in which no filesystem call raised, every pair
\* name.ext, name_min.ext that existed at the start and whose two paths no
\* other swap of the run touches has made the round trip: name.ext holds the
\* bytes that were at name_min.ext, and name_min.ext and name.ext.backup do
\* not exist.
C1_RoundTrip ==
    (rpc = "done" /\ faults = 0)
        => \A o \in DOMAIN fs0 : (PairAtStart(o) /\ PairAlone(o)) => RoundTrip(o)

C1_Witness ==
    /\ rpc = "done"
    /\ faults = 0
    /\ replaced_count = 1
    /\ \E o \in DOMAIN fs0 : PairAtStart(o) /\ PairAlone(o) /\ RoundTrip(o)

\* the original's bytes are at the original path, resp. at the backup path
InOrig == Exists(fs, cur.orig) /\ fs[cur.orig] = saved
InBackup == Exists(fs, cur.backup) /\ fs[cur.backup] = saved

MarkedAtStart == {q \in DOMAIN fs0 : Contains(q[2], MARKER)}

\* C3: a filesystem call that raises during one swap is not fatal to the
\* run: when the run has ended, the loop body has run for every name with
\* the marker in the tree.
C3_FailureNotFatal ==
    rpc \in {"done", "aborted"} => MarkedAtStart \subseteq visited

\* the compressed file has taken over the original name in the current swap
TakenOver ==
    \/ rpc = "remove"
    \/ "remove" \in raised
    \/ rpc \in Between /\ raised = {}

\* a path that is the backup path of some original
IsBackup(p) ==
    /\ Len(p[2]) >= Len(BACKUP_SUFFIX)
    /\ StartsAt(p[2], Len(p[2]) - Len(BACKUP_SUFFIX) + 1, BACKUP_SUFFIX)

\* until the compressed file has taken over, exactly one of original_path
\* and backup_path holds the original's bytes
OneHolder ==
    (cur.orig # NoPath /\ ~TakenOver) => (InOrig /\ ~InBackup) \/ (InBackup /\ ~InOrig)

Lower(c) ==
    CASE c = "J" -> "j"
      [] c = "P" -> "p"
      [] c = "E" -> "e"
      [] c = "G" -> "g"
      [] c = "N" -> "n"
      [] OTHER -> c

LowerStr(str) == [i \in 1..Len(str) |-> Lower(str[i])]

\* line 263
supported_formats ==
    { <<".", "j", "p", "g">>, <<".", "j", "p", "e", "g">>, <<".", "p", "n", "g">> }

B_UPPER_PNG == <<"b", ".", "P", "N", "G">>
N_TXT == <<"n", ".", "t", "x", "t">>

\* the images the tree handed to compress may hold
SourcePaths == { <<ROOT, A_JPG>>, <<SUB, B_UPPER_PNG>> }

\* files that may be there too: the output of an earlier run, and a file that
\* is no image
ExtraPaths == { <<ROOT, A_MIN_JPG>>, <<ROOT, N_TXT>> }

\* the largest file size, in bytes
MaxSize == 3

\* multiprocessing.cpu_count() on the hosts considered
CpuCounts == {1, 2, 3}

\* the larger of two integers
Max(a, b) == IF a >= b THEN a ELSE b

\* a work list collected by the extension alone
FilesToProcessUnfiltered(f) ==
    {p \in DOMAIN f : LowerStr(splitext(p[2])[2]) \in supported_formats}

\* lines 267-282: the work list
FilesToProcess(f) ==
    {p \in DOMAIN f :
        /\ LowerStr(splitext(p[2])[2]) \in supported_formats
        /\ ~Contains(p[2], MARKER)}

\* the resolution update is called without (its default None), false like the
\* empty string
NoResolution == ""

\* Python truth of a size: neither None nor 0
Truthy(x) == x # None /\ x # 0

\* lines 29-38, the body run under self.lock
update(st, original_size, compressed_size, resolution) ==
    IF Truthy(original_size) /\ Truthy(compressed_size)
    THEN [st EXCEPT
            !.processed_count = @ + 1,
            !.total_original_size = @ + original_size,
            !.total_compressed_size = @ + compressed_size,
            !.resolution_stats =
                IF resolution # NoResolution
                THEN [r \in DOMAIN @ \cup {resolution} |->
                        IF r = resolution
                        THEN (IF r \in DOMAIN @ THEN @[r] ELSE 0) + 1
                        ELSE @[r]]
                ELSE @]
    ELSE [st EXCEPT !.skipped_count = @ + 1]

\* a future just submitted; starts counts the calls of compress_image for it
NewTask ==
    [pc |-> "queued", original_size |-> None, compressed_size |-> None,
     exc |-> {}, ret |-> <<>>, via |-> "none", starts |-> 0]

\* every worker writing to one and the same output
SharedOutput(p) == Join(ROOT, A_MIN_JPG)

\* line 180
output_path(p) == get_compressed_filename(p)

\* the tasks a worker thread is running, or is stuck in
Running == {p \in DOMAIN task :
              task[p].pc \in {"open", "save", "measure", "discard", "handler",
                              "hung"}}

Finished == {p \in DOMAIN task : task[p].pc \in {"returned", "raised"}}

InitCompress ==
    /\ \E sources \in SUBSET SourcePaths, extra \in SUBSET ExtraPaths :
          \E size \in [sources -> 1..MaxSize] :
             fs = [p \in sources \cup extra |->
                     IF p \in sources THEN size[p] ELSE MaxSize]
    /\ fs0 = fs
    /\ faults = 0
    /\ ReplaceIdle
    /\ AnalyzeIdle
    /\ MainInCall
    /\ ResizeIdle
    /\ cpc = "enumerate"
    /\ max_workers = 0
    /\ task = NoTasks
    /\ collected = {}
    /\ stats = NewStats
    /\ report = <<>>

(***************************************************************************)
(* process_directory                                                       *)
(***************************************************************************)
\* lines 263-295: the work list is collected, the pool is sized and one
\* compress_image is submitted per work item
Enumerate ==
    /\ cpc = "enumerate"
    /\ \E cpu_count \in CpuCounts : max_workers' = Max(cpu_count - 1, 1)
    /\ task' = [p \in FilesToProcess(fs) |-> NewTask]
    /\ cpc' = "collect"
    /\ UNCHANGED <<fs, fs0, faults, collected, stats, report>>
    /\ UNCHANGED <<rvars, avars, mvars, zvars>>

\* lines 298-300: a finished future is taken and its result recorded
Collect(p) ==
    /\ cpc = "collect"
    /\ p \notin collected
    /\ task[p].pc = "returned"
    /\ collected' = collected \cup {p}
    /\ stats' = update(stats, task[p].ret[1], task[p].ret[2], NoResolution)
    /\ UNCHANGED <<fs, fs0, faults, cpc, max_workers, task, report>>
    /\ UNCHANGED <<rvars, avars, mvars, zvars>>

\* line 299: future.result() raises the exception that left compress_image;
\* the with statement of line 290 then waits for the pool
CollectRaises(p) ==
    /\ cpc = "collect"
    /\ p \notin collected
    /\ task[p].pc = "raised"
    /\ collected' = collected \cup {p}
    /\ cpc' = "unwinding"
    /\ UNCHANGED <<fs, fs0, faults, max_workers, task, stats, report>>
    /\ UNCHANGED <<rvars, avars, mvars, zvars>>

\* lines 318-320: the pool has shut down and the outer handler logs the error
LogError ==
    /\ cpc = "unwinding"
    /\ Finished = DOMAIN task
    /\ cpc' = "error"
    /\ UNCHANGED <<fs, fs0, faults, max_workers, task, collected, stats, report>>
    /\ UNCHANGED <<rvars, avars, mvars, zvars>>

\* a report that computes the ratio whatever processed_count is
ReportAlwaysDivides ==
    /\ cpc = "collect"
    /\ collected = DOMAIN task
    /\ IF stats.total_original_size # 0
       THEN /\ report' = <<"ratio", stats.total_compressed_size,
                           stats.total_original_size>>
            /\ cpc' = "done"
       ELSE /\ report' = <<>>
            /\ cpc' = "error"
    /\ UNCHANGED <<fs, fs0, faults, max_workers, task, collected, stats>>
    /\ UNCHANGED <<rvars, avars, mvars, zvars>>

\* lines 302-316: every future was taken; the final report.  A division by
\* zero at line 304 would raise ZeroDivisionError, caught at line 318
Report ==
    /\ cpc = "collect"
    /\ collected = DOMAIN task
    /\ IF stats.processed_count > 0
       THEN IF stats.total_original_size # 0
            THEN /\ report' = <<"ratio", stats.total_compressed_size,
                                stats.total_original_size>>
                 /\ cpc' = "done"
            ELSE /\ report' = <<>>
                 /\ cpc' = "error"
       ELSE /\ report' = <<"none">>
            /\ cpc' = "done"
    /\ UNCHANGED <<fs, fs0, faults, max_workers, task, collected, stats>>
    /\ UNCHANGED <<rvars, avars, mvars, zvars>>


(***************************************************************************)
(* compress_image, run by a worker thread for the work item p              *)
(***************************************************************************)
WorkerVars == <<fs0, cpc, max_workers, collected, stats, report>>

Raise(p, step, next) ==
    /\ faults' = faults + 1
    /\ task' = [task EXCEPT ![p].exc = @ \cup {step}, ![p].pc = next]

\* a pool that runs one compress_image at a time
GetSizeOneAtATime(p) ==
    /\ cpc \in {"collect", "unwinding"}
    /\ task[p].pc = "queued"
    /\ Running = {}
    /\ Exists(fs, p)
    /\ task' = [task EXCEPT ![p].original_size = fs[p], ![p].pc = "open",
                            ![p].starts = @ + 1]
    /\ UNCHANGED <<fs, faults>>
    /\ UNCHANGED WorkerVars
    /\ UNCHANGED <<rvars, avars, mvars, zvars>>

\* lines 179-180: a free worker takes the task; os.path.getsize(input_path)
GetSize(p) ==
    /\ cpc \in {"collect", "unwinding"}
    /\ task[p].pc = "queued"
    /\ Cardinality(Running) < max_workers
    /\ Exists(fs, p)
    /\ task' = [task EXCEPT ![p].original_size = fs[p], ![p].pc = "open",
                            ![p].starts = @ + 1]
    /\ UNCHANGED <<fs, faults>>
    /\ UNCHANGED WorkerVars
    /\ UNCHANGED <<rvars, avars, mvars, zvars>>

\* line 179 raises: the handler of line 245 reads output_path at line 248,
\* which was never assigned, and that exception leaves compress_image
GetSizeRaises(p) ==
    /\ cpc \in {"collect", "unwinding"}
    /\ task[p].pc = "queued"
    /\ Cardinality(Running) < max_workers
    /\ MayRaise \/ ~Exists(fs, p)
    /\ faults' = faults + 1
    /\ task' = [task EXCEPT ![p].exc = @ \cup {"getsize"}, ![p].pc = "raised",
                            ![p].starts = @ + 1]
    /\ UNCHANGED fs
    /\ UNCHANGED WorkerVars
    /\ UNCHANGED <<rvars, avars, mvars, zvars>>

\* lines 182-221: the image is decoded
Open(p) ==
    /\ task[p].pc = "open"
    /\ task' = [task EXCEPT ![p].pc = "save"]
    /\ UNCHANGED <<fs, faults>>
    /\ UNCHANGED WorkerVars
    /\ UNCHANGED <<rvars, avars, mvars, zvars>>

\* line 182 raises: the source is no image, or cannot be read
OpenRaises(p) ==
    /\ task[p].pc = "open"
    /\ MayRaise
    /\ Raise(p, "open", "handler")
    /\ UNCHANGED fs
    /\ UNCHANGED WorkerVars
    /\ UNCHANGED <<rvars, avars, mvars, zvars>>

\* line 224: img.save writes the encoded image; an encoded image is never
\* empty
Save(p) ==
    /\ task[p].pc = "save"
    /\ \E encoded \in 1..MaxSize : fs' = Written(fs, output_path(p), encoded)
    /\ task' = [task EXCEPT ![p].pc = "measure"]
    /\ UNCHANGED faults
    /\ UNCHANGED WorkerVars
    /\ UNCHANGED <<rvars, avars, mvars, zvars>>

\* line 224 raises: the output was not opened, or was left partly written,
\* or was removed again by the encoder
SaveRaises(p) ==
    /\ task[p].pc = "save"
    /\ MayRaise
    /\ \/ fs' = fs
       \/ \E partial \in 0..MaxSize : fs' = Written(fs, output_path(p), partial)
       \/ fs' = Removed(fs, output_path(p))
    /\ Raise(p, "save", "handler")
    /\ UNCHANGED WorkerVars
    /\ UNCHANGED <<rvars, avars, mvars, zvars>>

\* a comparison that lets an output as large as the source pass
MeasureKeepsEqual(p) ==
    /\ task[p].pc = "measure"
    /\ Exists(fs, output_path(p))
    /\ task' = [task EXCEPT
          ![p].compressed_size = fs[output_path(p)],
          ![p].pc = IF fs[output_path(p)] > task[p].original_size
                    THEN "discard" ELSE "returned",
          ![p].ret = IF fs[output_path(p)] > task[p].original_size
                     THEN @ ELSE <<task[p].original_size, fs[output_path(p)]>>,
          ![p].via = IF fs[output_path(p)] > task[p].original_size
                     THEN @ ELSE "line243"]
    /\ UNCHANGED <<fs, faults>>
    /\ UNCHANGED WorkerVars
    /\ UNCHANGED <<rvars, avars, mvars, zvars>>

\* lines 227-230 and 236-243: the output is measured; a smaller output is
\* returned with the two sizes
Measure(p) ==
    /\ task[p].pc = "measure"
    /\ Exists(fs, output_path(p))
    /\ task' = [task EXCEPT
          ![p].compressed_size = fs[output_path(p)],
          ![p].pc = IF fs[output_path(p)] >= task[p].original_size
                    THEN "discard" ELSE "returned",
          ![p].ret = IF fs[output_path(p)] >= task[p].original_size
                     THEN @ ELSE <<task[p].original_size, fs[output_path(p)]>>,
          ![p].via = IF fs[output_path(p)] >= task[p].original_size
                     THEN @ ELSE "line243"]
    /\ UNCHANGED <<fs, faults>>
    /\ UNCHANGED WorkerVars
    /\ UNCHANGED <<rvars, avars, mvars, zvars>>

\* line 227 raises
MeasureRaises(p) ==
    /\ task[p].pc = "measure"
    /\ MayRaise \/ ~Exists(fs, output_path(p))
    /\ Raise(p, "measure", "handler")
    /\ UNCHANGED fs
    /\ UNCHANGED WorkerVars
    /\ UNCHANGED <<rvars, avars, mvars, zvars>>

\* an output that is not smaller is reported and left on disk
DiscardKeepsFile(p) ==
    /\ task[p].pc = "discard"
    /\ task' = [task EXCEPT ![p].pc = "returned", ![p].ret = <<None, None>>,
                            ![p].via = "line234"]
    /\ UNCHANGED <<fs, faults>>
    /\ UNCHANGED WorkerVars
    /\ UNCHANGED <<rvars, avars, mvars, zvars>>

\* lines 230-234: an output that is not smaller is removed
Discard(p) ==
    /\ task[p].pc = "discard"
    /\ Exists(fs, output_path(p))
    /\ fs' = Removed(fs, output_path(p))
    /\ task' = [task EXCEPT ![p].pc = "returned", ![p].ret = <<None, None>>,
                            ![p].via = "line234"]
    /\ UNCHANGED faults
    /\ UNCHANGED WorkerVars
    /\ UNCHANGED <<rvars, avars, mvars, zvars>>

\* line 231 raises
DiscardRaises(p) ==
    /\ task[p].pc = "discard"
    /\ MayRaise \/ ~Exists(fs, output_path(p))
    /\ Raise(p, "discard", "handler")
    /\ UNCHANGED fs
    /\ UNCHANGED WorkerVars
    /\ UNCHANGED <<rvars, avars, mvars, zvars>>

\* a handler that logs the error and removes nothing
HandlerLogsOnly(p) ==
    /\ task[p].pc = "handler"
    /\ task' = [task EXCEPT ![p].pc = "returned", ![p].ret = <<None, None>>,
                            ![p].via = "line250"]
    /\ UNCHANGED <<fs, faults>>
    /\ UNCHANGED WorkerVars
    /\ UNCHANGED <<rvars, avars, mvars, zvars>>

\* lines 245-250: the handler removes the output, if there is one
Handler(p) ==
    /\ task[p].pc = "handler"
    /\ fs' = IF Exists(fs, output_path(p)) THEN Removed(fs, output_path(p)) ELSE fs
    /\ task' = [task EXCEPT ![p].pc = "returned", ![p].ret = <<None, None>>,
                            ![p].via = "line250"]
    /\ UNCHANGED faults
    /\ UNCHANGED WorkerVars
    /\ UNCHANGED <<rvars, avars, mvars, zvars>>

\* line 249 raises inside the handler: the exception leaves compress_image
HandlerRaises(p) ==
    /\ task[p].pc = "handler"
    /\ Exists(fs, output_path(p))
    /\ MayRaise
    /\ Raise(p, "handler", "raised")
    /\ UNCHANGED fs
    /\ UNCHANGED WorkerVars
    /\ UNCHANGED <<rvars, avars, mvars, zvars>>

NextCompress ==
    \/ Enumerate
    \/ \E p \in DOMAIN task : Collect(p)
    \/ \E p \in DOMAIN task : CollectRaises(p)
    \/ LogError
    \/ Report
    \/ \E p \in DOMAIN task : GetSize(p)
    \/ \E p \in DOMAIN task : GetSizeRaises(p)
    \/ \E p \in DOMAIN task : Open(p)
    \/ \E p \in DOMAIN task : OpenRaises(p)
    \/ \E p \in DOMAIN task : Save(p)
    \/ \E p \in DOMAIN task : SaveRaises(p)
    \/ \E p \in DOMAIN task : Measure(p)
    \/ \E p \in DOMAIN task : MeasureRaises(p)
    \/ \E p \in DOMAIN task : Discard(p)
    \/ \E p \in DOMAIN task : DiscardRaises(p)
    \/ \E p \in DOMAIN task : Handler(p)
    \/ \E p \in DOMAIN task : HandlerRaises(p)

SpecCompress == InitCompress /\ [][NextCompress]_vars


(***************************************************************************)
(* analyze_image_resolutions                                               *)
(***************************************************************************)
\* line 80
analyze_formats ==
    { <<".", "p", "n", "g">>, <<".", "j", "p", "g">>, <<".", "j", "p", "e", "g">>,
      <<".", "w", "e", "b", "p">> }

\* Python: str.endswith(suffix)
EndsWith(str, suffix) ==
    /\ Len(str) >= Len(suffix)
    /\ StartsAt(str, Len(str) - Len(suffix) + 1, suffix)

\* lines 78-82: the images a thread is submitted for
FilesToAnalyze(f) ==
    {p \in DOMAIN f : \E e \in analyze_formats : EndsWith(LowerStr(p[2]), e)}

\* the sizes an image of the tree may have
Dims == { <<1, 1>>, <<2, 1>> }

\* line 70: f"{img.width}x{img.height}"
Resolution(d) ==
    CASE d = <<1, 1>> -> "1x1"
      [] d = <<2, 1>> -> "2x1"

NewThread ==
    [pc |-> "queued", resolution |-> NoResolution, fields |-> <<>>, tmp |-> 0]

\* the statements of update's body for the given arguments, lines 31-38:
\* each is a read of a counter followed by a write of it
UpdateFields(original_size, compressed_size, resolution) ==
    IF Truthy(original_size) /\ Truthy(compressed_size)
    THEN <<"processed_count", "total_original_size", "total_compressed_size">>
         \o (IF resolution # NoResolution THEN <<"resolution_stats">> ELSE <<>>)
    ELSE <<"skipped_count">>

\* the threads of the pool that are running process_image
Busy == {p \in DOMAIN athread : athread[p].pc \notin {"queued", "finished"}}

InitAnalyze ==
    /\ \E extra \in SUBSET ExtraPaths :
          fs = [p \in SourcePaths \cup extra |-> MaxSize]
    /\ fs0 = fs
    /\ faults = 0
    /\ ReplaceIdle
    /\ MainIdle
    /\ ResizeIdle
    /\ cpc = "idle"
    /\ task = NoTasks
    /\ collected = {}
    /\ stats = NewStats
    /\ report = <<>>
    /\ \E cpu_count \in CpuCounts : max_workers = cpu_count
    /\ apc = "submit"
    /\ athread = NoTasks
    /\ lock = NoPath
    /\ dims \in [SourcePaths \cup ExtraPaths -> Dims]

AnalyzeFrame ==
    <<fs, fs0, rvars, cpc, max_workers, task, report, dims, mvars, zvars>>

\* lines 76-82: one process_image is submitted per image of the tree
AnalyzeSubmit ==
    /\ apc = "submit"
    /\ athread' = [p \in FilesToAnalyze(fs) |-> NewThread]
    /\ apc' = "collect"
    /\ UNCHANGED <<faults, collected, stats, lock>>
    /\ UNCHANGED AnalyzeFrame

\* line 67: a free thread of the pool takes the task
StartImage(p) ==
    /\ apc = "collect"
    /\ athread[p].pc = "queued"
    /\ Cardinality(Busy) < max_workers
    /\ athread' = [athread EXCEPT ![p].pc = "open"]
    /\ UNCHANGED <<faults, collected, stats, lock, apc>>
    /\ UNCHANGED AnalyzeFrame

\* lines 69-71: the image is opened and update(1, 1, resolution) is called
OpenImage(p) ==
    /\ athread[p].pc = "open"
    /\ athread' = [athread EXCEPT ![p].resolution = Resolution(dims[p]),
                                  ![p].pc = "acquire"]
    /\ UNCHANGED <<faults, collected, stats, lock, apc>>
    /\ UNCHANGED AnalyzeFrame

\* lines 72-74: the image cannot be opened; the error is logged
OpenImageRaises(p) ==
    /\ athread[p].pc = "open"
    /\ MayRaise
    /\ faults' = faults + 1
    /\ athread' = [athread EXCEPT ![p].pc = "finished"]
    /\ UNCHANGED <<collected, stats, lock, apc>>
    /\ UNCHANGED AnalyzeFrame

\* an update that enters its body without waiting for the lock
AcquireIgnoresLock(p) ==
    /\ athread[p].pc = "acquire"
    /\ lock' = p
    /\ athread' = [athread EXCEPT
          ![p].fields = UpdateFields(1, 1, athread[p].resolution),
          ![p].pc = "load"]
    /\ UNCHANGED <<faults, collected, stats, apc>>
    /\ UNCHANGED AnalyzeFrame

\* lines 30-31: with self.lock is entered when the lock is free
Acquire(p) ==
    /\ athread[p].pc = "acquire"
    /\ lock = NoPath
    /\ lock' = p
    /\ athread' = [athread EXCEPT
          ![p].fields = UpdateFields(1, 1, athread[p].resolution),
          ![p].pc = "load"]
    /\ UNCHANGED <<faults, collected, stats, apc>>
    /\ UNCHANGED AnalyzeFrame

\* the value of the counter a statement of the body reads
Counter(st, field, resolution) ==
    IF field = "resolution_stats"
    THEN (IF resolution \in DOMAIN st.resolution_stats
          THEN st.resolution_stats[resolution] ELSE 0)
    ELSE st[field]

\* the counter written with value v
WithCounter(st, field, resolution, v) ==
    IF field = "resolution_stats"
    THEN [st EXCEPT !.resolution_stats =
            [r \in DOMAIN @ \cup {resolution} |-> IF r = resolution THEN v ELSE @[r]]]
    ELSE [st EXCEPT ![field] = v]

\* lines 32-36 and 38, first half of x += 1: the counter is read
Load(p) ==
    /\ athread[p].pc = "load"
    /\ athread' = [athread EXCEPT
          ![p].tmp = Counter(stats, Head(athread[p].fields), athread[p].resolution),
          ![p].pc = "store"]
    /\ UNCHANGED <<faults, collected, stats, lock, apc>>
    /\ UNCHANGED AnalyzeFrame

\* lines 32-36 and 38, second half of x += 1: the sum is written
Store(p) ==
    /\ athread[p].pc = "store"
    /\ stats' = WithCounter(stats, Head(athread[p].fields), athread[p].resolution,
                            athread[p].tmp + 1)
    /\ athread' = [athread EXCEPT
          ![p].fields = Tail(@),
          ![p].pc = IF Tail(athread[p].fields) = <<>> THEN "release" ELSE "load"]
    /\ UNCHANGED <<faults, collected, lock, apc>>
    /\ UNCHANGED AnalyzeFrame

\* line 30: the with statement is left and the lock released
Release(p) ==
    /\ athread[p].pc = "release"
    /\ lock' = NoPath
    /\ athread' = [athread EXCEPT ![p].pc = "finished"]
    /\ UNCHANGED <<faults, collected, stats, apc>>
    /\ UNCHANGED AnalyzeFrame

\* lines 84-85: a finished future is taken
AnalyzeCollect(p) ==
    /\ apc = "collect"
    /\ athread[p].pc = "finished"
    /\ p \notin collected
    /\ collected' = collected \cup {p}
    /\ UNCHANGED <<faults, stats, lock, apc, athread>>
    /\ UNCHANGED AnalyzeFrame

\* lines 87-96: the histogram is sorted, logged and returned
AnalyzeReport ==
    /\ apc = "collect"
    /\ collected = DOMAIN athread
    /\ apc' = "done"
    /\ UNCHANGED <<faults, collected, stats, lock, athread>>
    /\ UNCHANGED AnalyzeFrame

NextAnalyze ==
    \/ AnalyzeSubmit
    \/ \E p \in DOMAIN athread : StartImage(p)
    \/ \E p \in DOMAIN athread : OpenImage(p)
    \/ \E p \in DOMAIN athread : OpenImageRaises(p)
    \/ \E p \in DOMAIN athread : Acquire(p)
    \/ \E p \in DOMAIN athread : Load(p)
    \/ \E p \in DOMAIN athread : Store(p)
    \/ \E p \in DOMAIN athread : Release(p)
    \/ \E p \in DOMAIN athread : AnalyzeCollect(p)
    \/ AnalyzeReport

SpecAnalyze == InitAnalyze /\ [][NextAnalyze]_vars

(***************************************************************************)
(* Properties of CompressionStats.update under concurrent callers          *)
(***************************************************************************)
\* the threads inside the body of update
InUpdate == {p \in DOMAIN athread : athread[p].pc \in {"load", "store", "release"}}

\* the threads whose update has returned
Updated ==
    {p \in DOMAIN athread :
        athread[p].pc = "finished" /\ athread[p].resolution # NoResolution}

\* the calls of the threads of S made one after the other
RECURSIVE Sequential(_)
Sequential(S) ==
    IF S = {} THEN NewStats
    ELSE LET p == CHOOSE q \in S : TRUE
         IN  update(Sequential(S \ {p}), 1, 1, athread[p].resolution)

\* C10: at most one thread is inside the body of update, and it holds the
\* lock; no update is lost: whenever no thread is inside, and so at the end,
\* the counters and the histogram are those of the returned calls made one
\* after the other.
C10_UpdateSerialized ==
    /\ Cardinality(InUpdate) <= 1
    /\ InUpdate = (IF lock = NoPath THEN {} ELSE {lock})
    /\ InUpdate = {} => stats = Sequential(Updated)
    /\ apc = "done" => (InUpdate = {} /\ Updated \cup {p \in DOMAIN athread :
                            athread[p].resolution = NoResolution} = DOMAIN athread)

C10_Witness ==
    \E p, q \in DOMAIN athread :
        /\ p # q
        /\ athread[p].pc = "store"
        /\ athread[q].pc = "acquire"
        /\ athread[p].resolution = athread[q].resolution
        /\ stats.processed_count = 1

(***************************************************************************)
(* Properties of compress_image and process_directory                      *)
(***************************************************************************)
\* the work items whose compress_image returned through the given line
ReturnedVia(line) == {p \in DOMAIN task : task[p].via = line}

\* C5: whenever compress_image returns the pair (original_size,
\* compressed_size), which the caller counts as a success, compressed_size is
\* strictly smaller than original_size and the sibling name_min.ext exists
\* with exactly compressed_size bytes.
C5_SuccessIsSmallerAndOnDisk ==
    \A p \in ReturnedVia("line243") :
        /\ task[p].ret[2] < task[p].ret[1]
        /\ task[p].ret[1] = fs[p]
        /\ Truthy(task[p].ret[1]) /\ Truthy(task[p].ret[2])
        /\ Exists(fs, output_path(p))
        /\ fs[output_path(p)] = task[p].ret[2]

C5_Witness ==
    \E p \in ReturnedVia("line243") :
        /\ task[p].ret = <<MaxSize, 1>>
        /\ fs[output_path(p)] = 1
        /\ p \in collected

\* C6: whenever compress_image returns (None, None) because the output was
\* not smaller than the source, no sibling name_min.ext exists.
C6_SkippedLeavesNoSibling ==
    \A p \in ReturnedVia("line234") :
        /\ task[p].ret = <<None, None>>
        /\ task[p].compressed_size >= task[p].original_size
        /\ ~Exists(fs, output_path(p))

C6_Witness ==
    \E p \in ReturnedVia("line234") :
        /\ task[p].compressed_size = task[p].original_size
        /\ ~Exists(fs, output_path(p))
        /\ output_path(p) \in DOMAIN fs0

C8_FailureScopedToFile ==
    /\ \A p \in DOMAIN task : task[p].pc # "raised"
    /\ cpc \notin {"unwinding", "error"}

RECURSIVE SumRet(_, _)
SumRet(S, i) ==
    IF S = {} THEN 0
    ELSE LET p == CHOOSE q \in S : TRUE IN task[p].ret[i] + SumRet(S \ {p}, i)

\* the counters are those of the results taken so far, and a report that is
\* made is made from all of them
TotalsOfTakenResults ==
    LET P == ReturnedVia("line243") \cap collected
        R == {p \in collected : task[p].pc = "returned"}
    IN  /\ stats.processed_count = Cardinality(P)
        /\ stats.skipped_count = Cardinality(R) - Cardinality(P)
        /\ stats.total_original_size = SumRet(P, 1)
        /\ stats.total_compressed_size = SumRet(P, 2)
        /\ cpc = "done" =>
              /\ R = DOMAIN task
              /\ report = IF P # {}
                          THEN <<"ratio", SumRet(P, 2), SumRet(P, 1)>>
                          ELSE <<"none">>

\* C9: after a compress batch of N work items of which P returned sizes
\* (o_i, c_i), processed_count = P, skipped_count = N - P,
\* total_original_size = sum o_i, total_compressed_size = sum c_i, and the
\* report gives the ratio 1 - (sum c_i)/(sum o_i).
C9_TotalsAfterBatch ==
    cpc \in {"done", "error"} =>
        LET P == ReturnedVia("line243")
        IN  /\ stats.processed_count = Cardinality(P)
            /\ stats.skipped_count = Cardinality(DOMAIN task) - Cardinality(P)
            /\ stats.total_original_size = SumRet(P, 1)
            /\ stats.total_compressed_size = SumRet(P, 2)
            /\ P # {} => report = <<"ratio", SumRet(P, 2), SumRet(P, 1)>>

\* C11: no file whose name contains the marker "_min." is ever a work item
\* of a compress run: on a tree that already holds name_min.ext outputs the
\* work items are exactly the original sources, and no file name_min_min.ext
\* is ever on disk.
C11_MarkedNeverEnqueued ==
    /\ \A p \in DOMAIN task : ~Contains(p[2], MARKER)
    /\ cpc # "enumerate" => DOMAIN task = SourcePaths \cap DOMAIN fs0
    /\ \A q \in DOMAIN fs : ~Contains(q[2], MIN_SUFFIX \o MARKER)
    /\ \A p \in DOMAIN task : Contains(output_path(p)[2], MARKER)

C11_Witness ==
    /\ cpc = "done"
    /\ \E p \in DOMAIN task :
          /\ output_path(p) \in DOMAIN fs0
          /\ task[p].via = "line243"
          /\ output_path(p) \notin DOMAIN task

(***************************************************************************)
(* main, for the compress command                                          *)
(***************************************************************************)
\* sys.argv[3], the quality: not given, or one of these texts
QualityArgs == {"", "0", "50", "101", "x"}

\* sys.argv[6], the scale ratio: not given, or one of these texts
RatioArgs == {"", "0", "1", "1.5", "-1", "x"}

\* the text is one that int() and float() convert rather than raise ValueError
IsNumber(text) == text \in {"0", "1", "50", "101", "1.5", "-1"}

\* line 383: int(sys.argv[3]) if len(sys.argv) > 3 else 50
int(text) ==
    CASE text = "" -> 50
      [] text = "0" -> 0
      [] text = "50" -> 50
      [] text = "101" -> 101

\* line 386: float(sys.argv[6]) if len(sys.argv) > 6 else 0.5, as a fraction
float(text) ==
    CASE text = "" -> <<1, 2>>
      [] text = "0" -> <<0, 1>>
      [] text = "1" -> <<1, 1>>
      [] text = "1.5" -> <<3, 2>>
      [] text = "-1" -> <<-1, 1>>

\* line 388: scale_ratio < 0 or scale_ratio > 1, the denominator being positive
RatioOutOfRange(r) == r[1] < 0 \/ r[1] > r[2]

\* the tree below sys.argv[2]: nothing when it names no directory
MainTree(directory) ==
    IF directory = "dir" THEN [p \in SourcePaths |-> MaxSize] ELSE NoTasks

InitMain ==
    /\ argv \in [directory : {"dir", "nodir"}, quality : QualityArgs,
                 scale_ratio : RatioArgs]
    /\ fs = MainTree(argv.directory)
    /\ fs0 = fs
    /\ faults = 0
    /\ mpc = "main"
    /\ exit_code = None
    /\ ReplaceIdle
    /\ CompressIdle
    /\ AnalyzeIdle
    /\ ResizeIdle

MainFrame ==
    <<fs, fs0, faults, argv, max_workers, task, collected, stats, report, rvars,
      avars, zvars>>

\* lines 383-386: int() or float() raises ValueError, which nothing catches:
\* the interpreter prints the traceback and exits with status 1
MainValueError ==
    /\ mpc = "main"
    /\ \/ argv.quality # "" /\ ~IsNumber(argv.quality)
       \/ argv.scale_ratio # "" /\ ~IsNumber(argv.scale_ratio)
    /\ mpc' = "exited"
    /\ exit_code' = 1
    /\ UNCHANGED cpc
    /\ UNCHANGED MainFrame

\* lines 388-390: a scale ratio outside [0, 1] is reported and the process
\* exits with status 1
MainRatioRejected ==
    /\ mpc = "main"
    /\ argv.quality = "" \/ IsNumber(argv.quality)
    /\ argv.scale_ratio = "" \/ IsNumber(argv.scale_ratio)
    /\ RatioOutOfRange(float(argv.scale_ratio))
    /\ mpc' = "exited"
    /\ exit_code' = 1
    /\ UNCHANGED cpc
    /\ UNCHANGED MainFrame

\* line 392: process_directory is called with the values parsed
MainCall ==
    /\ mpc = "main"
    /\ argv.quality = "" \/ IsNumber(argv.quality)
    /\ argv.scale_ratio = "" \/ IsNumber(argv.scale_ratio)
    /\ ~RatioOutOfRange(float(argv.scale_ratio))
    /\ mpc' = "process_directory"
    /\ cpc' = "enumerate"
    /\ UNCHANGED exit_code
    /\ UNCHANGED MainFrame

\* lines 392 and 400: process_directory returns, with its report or after its
\* handler of line 318, main returns and the process exits with status 0
MainReturn ==
    /\ mpc = "process_directory"
    /\ cpc \in {"done", "error"}
    /\ mpc' = "exited"
    /\ exit_code' = 0
    /\ UNCHANGED cpc
    /\ UNCHANGED MainFrame

NextMain ==
    \/ MainValueError
    \/ MainRatioRejected
    \/ MainCall
    \/ MainReturn
    \/ NextCompress

SpecMain == InitMain /\ [][NextMain]_vars

\* the input main was given is invalid: the root is no directory, the quality
\* is no number in 1..100, or the scale ratio is no number in [0, 1]
InvalidInput ==
    \/ argv.directory = "nodir"
    \/ argv.quality # "" /\ ~IsNumber(argv.quality)
    \/ IsNumber(argv.quality) /\ int(argv.quality) \notin 1..100
    \/ argv.scale_ratio # "" /\ ~IsNumber(argv.scale_ratio)
    \/ IsNumber(argv.scale_ratio) /\ RatioOutOfRange(float(argv.scale_ratio))

\* a scale ratio that is no number in [0, 1] ends the process with status 1
\* before process_directory is entered
InvalidRatioIsFatal ==
    (/\ argv.scale_ratio # ""
     /\ IsNumber(argv.scale_ratio) => RatioOutOfRange(float(argv.scale_ratio)))
        => /\ cpc = "idle"
           /\ fs = fs0
           /\ mpc = "exited" => exit_code = 1

\* C12: invalid input to compress is fatal: no work item is scheduled and no
\* file is written, and the process exits with a status other than 0.
C12_InvalidInputIsFatal ==
    InvalidInput =>
        /\ DOMAIN task = {}
        /\ fs = fs0
        /\ mpc = "exited" => exit_code # 0

\* no exception has left a compress_image
NoneRaised == \A p \in DOMAIN task : task[p].pc # "raised"

\* C13: whenever processed_count is 0 at report time, with no matching file
\* or with every work item skipped or failed, process_directory reports that
\* no file was processed and evaluates no division; the division is
\* evaluated only with total_original_size > 0, so line 304 never raises.
C13_ZeroDivisionGuard ==
    /\ (cpc = "collect" /\ collected = DOMAIN task /\ stats.processed_count > 0)
          => stats.total_original_size > 0
    /\ (cpc \in {"done", "error"} /\ NoneRaised) =>
          /\ cpc = "done"
          /\ stats.processed_count = 0 => report = <<"none">>
          /\ stats.processed_count > 0 =>
                (Len(report) = 3 /\ report[1] = "ratio" /\ report[3] > 0)

C13_Witness ==
    /\ cpc = "done"
    /\ DOMAIN task = {}
    /\ DOMAIN fs # {}
    /\ stats.processed_count = 0
    /\ report = <<"none">>

(***************************************************************************)
(* resize_image.  The scale ratio is a fraction <<n, d>> with d a power of *)
(* two, so that (original - target) * scale_ratio + target is computed     *)
(* without rounding.  The quotient scale and the products original * scale *)
(* are rounded as IEEE 754 doubles round them, to the nearest double.      *)
(***************************************************************************)
\* the largest width and height of the small images
MaxDim == 4

\* image.size of the images considered
ImageSizes ==
    ((1..MaxDim) \X (1..MaxDim))
        \cup { <<2000, 1000>>, <<800, 600>>, <<2000, 600>> }

\* target_width and target_height: not given, 0, or a number of pixels
Targets == {None, 0} \cup (1..MaxDim) \cup {1000, 1280}

\* scale_ratio, which main keeps within [0, 1]: 0, 0.25, 0.5, 0.75 and 1
Ratios == { <<0, 1>>, <<1, 4>>, <<1, 2>>, <<3, 4>>, <<1, 1>> }

\* int(x) for x = n / d with d > 0: the fraction is cut off toward zero
Trunc(n, d) == IF n >= 0 THEN n \div d ELSE -((-n) \div d)

RECURSIVE GCD(_, _)
GCD(a, b) == IF b = 0 THEN a ELSE GCD(b, a % b)

RECURSIVE Pow2(_)
Pow2(i) == IF i = 0 THEN 1 ELSE 2 * Pow2(i - 1)

RECURSIVE IsPow2(_)
IsPow2(x) == x = 1 \/ (x > 1 /\ x % 2 = 0 /\ IsPow2(x \div 2))

\* the least i >= from with bound <= x * 2^i
RECURSIVE ShiftUntil(_, _, _)
ShiftUntil(x, bound, from) ==
    IF bound <= x * Pow2(from) THEN from ELSE ShiftUntil(x, bound, from + 1)

\* r * 2^steps modulo m, for r < m < 2^17, ten bits at a time
RECURSIVE ShiftMod(_, _, _)
ShiftMod(r, m, steps) ==
    IF steps = 0 THEN r
    ELSE IF steps >= 10 THEN ShiftMod((1024 * r) % m, m, steps - 10)
    ELSE ShiftMod((2 * r) % m, m, steps - 1)

\* the number of bits in the significand of a double
MANTISSA == 53

\* int(a * scale) where scale = n / m is a quotient of two floats whose exact
\* value is N / D, 0 < N / D <= 1, and a is a positive integer.  The quotient
\* is rounded to the nearest double, the product is rounded again, and int()
\* cuts the result off.  Rounding matters only when a * N / D is an integer k
\* and N / D is no double: the quotient is rounded down when the remainder R
\* of its 53-bit significand is under a half, and the product then rounds to
\* the double below k when it is more than half a spacing under k.
MulDivTrunc(a, N, D) ==
    LET g == GCD(N, D)
        N1 == N \div g
        D1 == D \div g
        k == (a * N1) \div D1
        j == ShiftUntil(N1, D1, 0)
        c == ShiftUntil(1, k, 0)
        R == ShiftMod(N1, D1, MANTISSA - 1 + j)
    IN  IF IsPow2(D1) \/ (a * N1) % D1 # 0 THEN (a * N) \div D
        ELSE IF 2 * R < D1 /\ 4 * a * R > D1 * Pow2(c + j) THEN k - 1
        ELSE k

\* (original - target) * scale_ratio + target, times the denominator of
\* scale_ratio: lines 123, 124, 137 and 149
Interpolated(original, target, ratio) ==
    (original - target) * ratio[1] + target * ratio[2]

\* lines 111-146: image.resize is reached, the image is not returned as it is
Resizes(size, tw, th) ==
    IF ~Truthy(tw) /\ ~Truthy(th) THEN FALSE
    ELSE IF Truthy(tw) /\ Truthy(th) THEN ~(size[1] <= tw /\ size[2] <= th)
    ELSE IF Truthy(tw) THEN ~(size[1] <= tw)
    ELSE ~(size[2] <= th)

\* a resize without the tests of lines 119, 133 and 145
resize_unguarded(size, tw, th, ratio) ==
    IF Truthy(tw)
    THEN <<Trunc(Interpolated(size[1], tw, ratio), ratio[2]),
           Trunc(size[2] * Interpolated(size[1], tw, ratio), ratio[2] * size[1])>>
    ELSE size

\* lines 111-155: the size of the image resize_image returns
resize_image(size, tw, th, ratio) ==
    LET original_width == size[1]
        original_height == size[2]
        d == ratio[2]
        \* width_ratio or new_width, and height_ratio or new_height, times d
        w == Interpolated(original_width, tw, ratio)
        h == Interpolated(original_height, th, ratio)
    IN  IF ~Resizes(size, tw, th) THEN size
        ELSE IF Truthy(tw) /\ Truthy(th)
        THEN \* scale = min(width_ratio / original_width,
             \*             height_ratio / original_height)
             IF w * original_height <= h * original_width
             THEN <<MulDivTrunc(original_width, w, d * original_width),
                    MulDivTrunc(original_height, w, d * original_width)>>
             ELSE <<MulDivTrunc(original_width, h, d * original_height),
                    MulDivTrunc(original_height, h, d * original_height)>>
        ELSE IF Truthy(tw)
        THEN \* scale = new_width / original_width
             <<Trunc(w, d), MulDivTrunc(original_height, w, d * original_width)>>
        ELSE \* scale = new_height / original_height
             <<MulDivTrunc(original_width, h, d * original_height), Trunc(h, d)>>

InitResize ==
    /\ image \in ImageSizes
    /\ target_width \in Targets
    /\ target_height \in Targets
    /\ scale_ratio \in Ratios
    /\ zpc = "call"
    /\ new_size = <<0, 0>>
    /\ fs = NoTasks
    /\ fs0 = fs
    /\ faults = 0
    /\ ReplaceIdle
    /\ CompressIdle
    /\ AnalyzeIdle
    /\ MainIdle

ResizeFrame ==
    <<fs, fs0, faults, rvars, cvars, avars, mvars, image, target_width,
      target_height, scale_ratio>>

\* lines 111-112, 119-120, 133-134 and 145-146: the image is returned as it is
ResizeNotNeeded ==
    /\ zpc = "call"
    /\ ~Resizes(image, target_width, target_height)
    /\ new_size' = resize_image(image, target_width, target_height, scale_ratio)
    /\ zpc' = "returned"
    /\ UNCHANGED ResizeFrame

\* lines 122-161: the new size is computed and the resized image returned
ResizeScaled ==
    /\ zpc = "call"
    /\ Resizes(image, target_width, target_height)
    /\ new_size' = resize_image(image, target_width, target_height, scale_ratio)
    /\ zpc' = "returned"
    /\ UNCHANGED ResizeFrame

\* line 155: image.resize may refuse a size with a side of 0 pixels
ResizeRaises ==
    /\ zpc = "call"
    /\ Resizes(image, target_width, target_height)
    /\ LET size == resize_image(image, target_width, target_height, scale_ratio)
       IN  size[1] < 1 \/ size[2] < 1
    /\ zpc' = "raised"
    /\ UNCHANGED new_size
    /\ UNCHANGED ResizeFrame

NextResize ==
    \/ ResizeNotNeeded
    \/ ResizeScaled
    \/ ResizeRaises

SpecResize == InitResize /\ [][NextResize]_vars

(***************************************************************************)
(* Properties of resize_image                                              *)
(***************************************************************************)
\* k is the fraction n / d cut off to an integer, for n >= 0 and d > 0
IsTruncated(k, n, d) == k * d <= n /\ n < (k + 1) * d

\* the new width, resp. height, of the resize policy, times the denominator
\* of the scale ratio: target + scale_ratio * (original - target)
PolicyWidth == target_width * scale_ratio[2]
                  + scale_ratio[1] * (image[1] - target_width)
PolicyHeight == target_height * scale_ratio[2]
                   + scale_ratio[1] * (image[2] - target_height)

\* each side the code returns is the side of the resize policy, or one pixel
\* less
ResizeWithinOnePixel ==
    (zpc = "returned" /\ Truthy(target_width) /\ ~Truthy(target_height)
        /\ image[1] > target_width) =>
       /\ IsTruncated(new_size[1], PolicyWidth, scale_ratio[2])
       /\ \E k \in {new_size[2], new_size[2] + 1} :
             IsTruncated(k, image[2] * PolicyWidth, scale_ratio[2] * image[1])

\* C14: with a target width W only and ow > W, the new width is
\* W + scaleRatio * (ow - W) and the new height oh * (newWidth / ow), both cut
\* off to integers, so 2000x1000 with W = 1000 and ratio 0.5 gives 1500x750;
\* the same for a target height only; with both targets one scale factor, the
\* smaller of the two per-axis factors, gives both sides, so the aspect ratio
\* is kept up to the cutting off and no side exceeds the original.
C14_ResizePolicy ==
    zpc = "returned" =>
        /\ (Truthy(target_width) /\ ~Truthy(target_height)
                /\ image[1] > target_width) =>
              /\ IsTruncated(new_size[1], PolicyWidth, scale_ratio[2])
              /\ IsTruncated(new_size[2], image[2] * PolicyWidth,
                             scale_ratio[2] * image[1])
        /\ (Truthy(target_height) /\ ~Truthy(target_width)
                /\ image[2] > target_height) =>
              /\ IsTruncated(new_size[2], PolicyHeight, scale_ratio[2])
              /\ IsTruncated(new_size[1], image[1] * PolicyHeight,
                             scale_ratio[2] * image[2])
        /\ (Truthy(target_width) /\ Truthy(target_height)
                /\ (image[1] > target_width \/ image[2] > target_height)) =>
              /\ new_size[1] <= image[1]
              /\ new_size[2] <= image[2]
              /\ new_size[1] * scale_ratio[2] <= PolicyWidth
              /\ new_size[2] * scale_ratio[2] <= PolicyHeight
              /\ \/ IsTruncated(new_size[1], PolicyWidth, scale_ratio[2])
                 \/ IsTruncated(new_size[2], PolicyHeight, scale_ratio[2])
              /\ new_size[1] * image[2] - new_size[2] * image[1] < image[1]
              /\ new_size[2] * image[1] - new_size[1] * image[2] < image[2]
        /\ (image = <<2000, 1000>> /\ target_width = 1000
                /\ ~Truthy(target_height) /\ scale_ratio = <<1, 2>>) =>
              new_size = <<1500, 750>>

\* the original exceeds the target on no axis a target is given for
WithinTargets ==
    /\ Truthy(target_width) \/ Truthy(target_height)
    /\ Truthy(target_width) => image[1] <= target_width
    /\ Truthy(target_height) => image[2] <= target_height

\* C15: with a target width only, a target height only, or both, an image
\* that exceeds the target on no given axis is returned with its size
\* unchanged.
C15_ResizeNoOp ==
    WithinTargets => /\ zpc # "raised"
                     /\ zpc = "returned" => new_size = image

C15_Witness ==
    /\ zpc = "returned"
    /\ image = <<800, 600>>
    /\ target_width = 1000
    /\ target_height = None
    /\ new_size = <<800, 600>>

\* the results recorded in the aggregator
Recorded == stats.processed_count + stats.skipped_count

\* no work item is transformed twice, a result is taken only from a finished
\* transform, and a report that is made is made after every work item was
\* transformed once and all N results were recorded
ReportAfterAllResults ==
    /\ \A p \in DOMAIN task : task[p].starts <= 1
    /\ collected \subseteq Finished
    /\ Recorded <= Cardinality(collected)
    /\ report # <<>> =>
          /\ \A p \in DOMAIN task : task[p].starts = 1 /\ task[p].pc = "returned"
          /\ Recorded = Cardinality(DOMAIN task)

\* C16: process_directory blocks until all submitted work has completed:
\* when it has ended, every enumerated work item has been transformed exactly
\* once, its result has been recorded in the aggregator exactly once, taken
\* after the transform completed, and the report was made from all N results
\* (processed_count + skipped_count = N).
C16_AllResultsRecordedOnce ==
    /\ \A p \in DOMAIN task : task[p].starts <= 1
    /\ collected \subseteq Finished
    /\ cpc \in {"done", "error"} =>
          /\ \A p \in DOMAIN task : task[p].starts = 1 /\ p \in Finished
          /\ collected = DOMAIN task
          /\ Recorded = Cardinality(DOMAIN task)
          /\ report # <<>>

(***************************************************************************)
(* process_directory when a transform may hang                             *)
(***************************************************************************)
InitHang ==
    /\ fs \in [SourcePaths -> 1..MaxSize]
    /\ fs0 = fs
    /\ faults = 0
    /\ ReplaceIdle
    /\ AnalyzeIdle
    /\ MainInCall
    /\ ResizeIdle
    /\ cpc = "enumerate"
    /\ max_workers = 0
    /\ task = NoTasks
    /\ collected = {}
    /\ stats = NewStats
    /\ report = <<>>

\* the work items whose compress_image will never return
Hung == {p \in DOMAIN task : task[p].pc = "hung"}

\* lines 182-224: reading the source blocks for ever (no call has a timeout);
\* one file of the run does so
Hang(p) ==
    /\ task[p].pc = "open"
    /\ Hung = {}
    /\ task' = [task EXCEPT ![p].pc = "hung"]
    /\ UNCHANGED <<fs, faults>>
    /\ UNCHANGED WorkerVars
    /\ UNCHANGED <<rvars, avars, mvars, zvars>>

NextHang ==
    \/ NextCompress
    \/ \E p \in DOMAIN task : Hang(p)

\* the steps of compress_image for p in which nothing raises
Progress(p) ==
    /\ p \in DOMAIN task
    /\ \/ GetSize(p)
       \/ Open(p)
       \/ Save(p)
       \/ Measure(p)
       \/ Discard(p)
       \/ Handler(p)

\* a worker thread that is free takes a queued task, and a thread that is not
\* stuck goes on with its task
SpecHang ==
    /\ InitHang
    /\ [][NextHang]_vars
    /\ \A p \in SourcePaths : WF_vars(Progress(p))

\* the transform of p has ended, with a result or with an exception
Transformed(p) == p \in DOMAIN task /\ task[p].pc \in {"returned", "raised"}

\* C17 as stated: if the transform of one work item never returns, every
\* other work item is still transformed eventually, whatever the size
\* max(cpu_count - 1, 1) of the pool, and process_directory never ends.
C17_HangBlocksOnlyItsSlot ==
    /\ [](Hung # {} => cpc \notin {"done", "error"})
    /\ \A p \in SourcePaths :
          (p \in DOMAIN task /\ Hung \ {p} # {}) ~> Transformed(p)

\* C17 amended: if the transform of one work item never returns and the pool
\* has at least two workers (cpu_count >= 3), every other work item is still
\* transformed eventually, and process_directory never ends.
C17_HangWithSpareWorker ==
    /\ [](Hung # {} => cpc \notin {"done", "error"})
    /\ \A p \in SourcePaths :
          (p \in DOMAIN task /\ Hung \ {p} # {} /\ max_workers >= 2)
              ~> Transformed(p)

C17_Witness ==
    /\ max_workers = 2
    /\ cpc = "collect"
    /\ \E q \in Hung : \E p \in DOMAIN task \ {q} :
          /\ task[p].pc = "returned"
          /\ task[p].starts = 1
          /\ p \in collected

(***************************************************************************)
(* Properties of replace_with_compressed: orphans and failed swaps         *)
(***************************************************************************)
\* C18: when replace comes to a name name_min.ext whose derived original
\* name.ext does not exist, that step renames and deletes nothing (the
\* compressed file stays, no .backup appears), counts nothing as replaced,
\* logs no error and raises nothing, and the walk goes on.
C18_OrphanSkipped ==
    [][\A f \in files \ files' :
          (Contains(f, MARKER) /\ ~Exists(fs, original_path(f))) =>
             /\ fs' = fs
             /\ replaced_count' = replaced_count
             /\ errlog' = errlog
             /\ faults' = faults
             /\ rpc' = "files"]_vars

C18_Witness ==
    /\ rpc = "done"
    /\ fs = fs0
    /\ replaced_count = 0
    /\ errlog = {}
    /\ \E q \in visited :
          /\ DerivedOriginal(q) \notin DOMAIN fs0
          /\ Exists(fs, q)
          /\ ~Exists(fs, BackupOf(DerivedOriginal(q)))

\* the swap last begun ended without being counted, after a step of the
\* guarded block of lines 344-351 raised and the handler ran to its end
SwapFailed ==
    /\ rpc \in Between
    /\ raised # {}
    /\ raised \subseteq {"rename2", "remove"}

\* the state before the swap: the original's bytes at original_path, the
\* compressed bytes at compressed_path, no backup
Intact ==
    /\ InOrig
    /\ Exists(fs, cur.comp)
    /\ fs[cur.comp] = cur.held
    /\ ~Exists(fs, cur.backup)

\* a swap whose second rename raised ends in the state before the swap
FailedRename2IsIntact == (SwapFailed /\ raised = {"rename2"}) => Intact

\* C20: when a swap ends without being counted as replaced because the
\* second rename or the deletion of the backup raised, the filesystem is as
\* before the swap: the original's bytes at the original path, the compressed
\* bytes still at name_min.ext, no .backup left; the compressed bytes are
\* not lost.
C20_FailedSwapIsIntact ==
    SwapFailed =>
        /\ Intact
        /\ \E q \in DOMAIN fs : fs[q] = cur.held

(***************************************************************************)
(* Properties of the workers of one compress run                           *)
(***************************************************************************)
\* the sibling outputs of the work list
Outputs == {output_path(p) : p \in DOMAIN task}

\* the work list of a tree that holds every name of the model
EveryName ==
    FilesToProcess([p \in ReplacePaths \cup SourcePaths \cup ExtraPaths |-> 1])

\* the file at q is not what it was in the state before the step
Touched(q) ==
    \/ Exists(fs, q) # Exists(fs', q)
    \/ Exists(fs, q) /\ Exists(fs', q) /\ fs[q] # fs'[q]

\* C19: in the work list of one compress run distinct sources have distinct
\* sibling outputs and no sibling output is a source of the work list; so,
\* under any interleaving, a step touches no file but the output of the one
\* worker that takes it, and every source, like every other file that is no
\* output, stays as it was.
C19_WorkersIsolated ==
    /\ [](/\ \A p, q \in DOMAIN task : p # q => output_path(p) # output_path(q)
          /\ Outputs \cap DOMAIN task = {}
          /\ \A p, q \in EveryName :
                /\ p # q => get_compressed_filename(p) # get_compressed_filename(q)
                /\ get_compressed_filename(p) \notin EveryName
          /\ \A p \in DOMAIN task : Exists(fs, p) /\ fs[p] = fs0[p]
          /\ \A q \in (DOMAIN fs \cup DOMAIN fs0) \ Outputs :
                Exists(fs, q) /\ Exists(fs0, q) /\ fs[q] = fs0[q])
    /\ [][\A q \in DOMAIN fs \cup DOMAIN fs' :
             Touched(q) =>
                \E p \in DOMAIN task :
                   /\ q = output_path(p)
                   /\ task'[p] # task[p]
                   /\ \A o \in DOMAIN task \ {p} : task'[o] = task[o]]_vars

C19_Witness ==
    \E p, q \in DOMAIN task :
        /\ p # q
        /\ task[p].pc = "measure"
        /\ task[q].pc = "discard"
        /\ Exists(fs, output_path(p))
        /\ Exists(fs, output_path(q))
        /\ output_path(p) \in DOMAIN fs0

=============================================================================
